---- MODULE Spec2Model ----
(***************************************************************************)
(* SGVCS (src/src/vcs.rs): a content-addressed object store, a staging     *)
(* index and a parent-linked commit chain kept as files under .sgvcs/.     *)
(*                                                                         *)
(* Files hold byte sequences, modelled as sequences of naturals < 256.     *)
(* The JSON written by serde_json is modelled byte for byte in a compact   *)
(* form: the field names and the pretty-printer's whitespace, which the    *)
(* derive fixes, are left out; brackets, braces, quotes and commas stay,   *)
(* so that serialising and parsing are two different computations.         *)
(***************************************************************************)
EXTENDS Naturals, Sequences, FiniteSets, Bags

(* ------------------------------ bounds --------------------------------- *)
MaxAdds == 2
MaxCommits == 2
\* The calls two concurrent callers make between them.
MaxCalls == 3

(* ------------------------------ bytes ---------------------------------- *)
\* The JSON punctuation serde_json emits and accepts, as ASCII codes.
Ch == [quote |-> 34, comma |-> 44, lbracket |-> 91, rbracket |-> 93,
       lbrace |-> 123, rbrace |-> 125, slash |-> 47]

\* b"[]", the literal init and commit write to the index file.
EmptyArray == <<Ch.lbracket, Ch.rbracket>>

\* read_to_string accepts only valid UTF-8. The model's bytes are ASCII or
\* 0xFF, a byte no UTF-8 sequence contains, so validity is "all ASCII".
IsUtf8(b) == \A i \in 1..Len(b) : b[i] < 128

\* The paths handed to add_file: a relative one ("a") and an absolute one ("/a").
Paths == {<<97>>, <<Ch.slash, 97>>}
\* The contents a working-tree file can have: "h", "w", and the byte 0xFF.
Contents == {<<104>>, <<119>>, <<255>>}
\* The readings of Utc::now() (in seconds) a commit can get. It is the wall
\* clock, which nothing else reads: every commit of a run falls in one second.
Seconds == {0}
\* Commit messages ("m").
Messages == {<<109>>}

\* objects_path as a string ("/o" stands for <cwd>/.sgvcs/objects).
objects_path == <<Ch.slash, 111>>

\* Path::join: an absolute argument replaces the base, a relative one is
\* appended after a separator.
PathJoin(base, p) ==
    IF Len(p) > 0 /\ p[1] = Ch.slash THEN p ELSE base \o <<Ch.slash>> \o p

(* ------------------------------- hash ---------------------------------- *)
\* format!("{:02x}", byte): two lower-case hex digits.
HexDigit(d) == IF d < 10 THEN 48 + d ELSE 87 + d

\* The loop of Sgvcs::hash over the digest: byte i gives characters 2i-1, 2i.
HexAll(bytes) ==
    [i \in 1..(2 * Len(bytes)) |->
        IF i % 2 = 1 THEN HexDigit(bytes[(i + 1) \div 2] \div 16)
        ELSE HexDigit(bytes[i \div 2] % 16)]

\* One lane of the digest: the sum, over the positions, of the byte times a
\* weight of the position, modulo the largest prime below 2^24. (The sum of
\* a function's values is the cardinality of the bag it is.)
Weight(i, mult) == (((i * mult + 17) * (i + mult)) % 4194300) + 1

Lane(content, mult, seed) ==
    (seed + Len(content)
       + BagCardinality([i \in 1..Len(content) |->
                            (((content[i] + 1) * Weight(i, mult)) % 4194301) + 1]))
        % 16777213

\* The three bytes of a lane's value, most significant first.
LaneBytes(v) == <<v \div 65536, (v \div 256) % 256, v % 256>>

\* Sha1::update and finalize: the digest bytes. SHA-1's 20 bytes are modelled
\* by a fixed-width digest of 6 bytes (two lanes with different multipliers
\* and seeds), which is deterministic and, like SHA-1 on the inputs a
\* repository meets, free of collisions on every content the model stores.
Sha1Digest(content) ==
    LaneBytes(Lane(content, 127, 7)) \o LaneBytes(Lane(content, 31, 11))

\* Sgvcs::hash: the digest formatted as lower-case hex.
hash(content) == HexAll(Sha1Digest(content))

(* ---------------------------- serde_json ------------------------------- *)
\* A JSON string: the text between quotes (the model's strings hold no
\* quote or backslash, so no escape is ever written).
JsonString(s) == <<Ch.quote>> \o s \o <<Ch.quote>>

\* IndexData {path, hash}.
EntryToJson(e) ==
    <<Ch.lbrace>> \o JsonString(e.path) \o <<Ch.comma>> \o JsonString(e.hash)
        \o <<Ch.rbrace>>

RECURSIVE EntriesToJson(_)
EntriesToJson(es) ==
    IF es = <<>> THEN <<>>
    ELSE IF Len(es) = 1 THEN EntryToJson(es[1])
    ELSE EntryToJson(es[1]) \o <<Ch.comma>> \o EntriesToJson(Tail(es))

\* serde_json::to_string_pretty(&Vec<IndexData>).
IndexToJson(es) == <<Ch.lbracket>> \o EntriesToJson(es) \o <<Ch.rbracket>>

\* serde_json::to_string_pretty(&CommitData).
CommitToJson(c) ==
    <<Ch.lbrace>> \o JsonString(c.message) \o <<Ch.comma>>
        \o JsonString(c.time_stamp) \o <<Ch.comma>>
        \o IndexToJson(c.files) \o <<Ch.comma>>
        \o JsonString(c.parent) \o <<Ch.rbrace>>

\* Parsers work on (bytes, position) and return [ok, val, next]. Each step
\* of a parser hands what it has read to the next step.
At(b, i, ch) == i <= Len(b) /\ b[i] = ch

\* A string starts at a quote and ends at the first quote after it.
IsClosing(b, i, k) == b[k] = Ch.quote /\ \A l \in (i+1)..(k-1) : b[l] # Ch.quote

StringUpTo(b, i, j) == [ok |-> TRUE, val |-> SubSeq(b, i+1, j-1), next |-> j+1]

ParseString(b, i) ==
    IF At(b, i, Ch.quote) /\ \E k \in (i+1)..Len(b) : IsClosing(b, i, k)
    THEN StringUpTo(b, i, CHOOSE k \in (i+1)..Len(b) : IsClosing(b, i, k))
    ELSE [ok |-> FALSE, val |-> <<>>, next |-> i]

NoEntry == [path |-> <<>>, hash |-> <<>>]
BadEntry(i) == [ok |-> FALSE, val |-> NoEntry, next |-> i]

\* IndexData: '{' path ',' hash '}'.
EntryHash(b, i, p, h) ==
    IF h.ok /\ At(b, h.next, Ch.rbrace)
    THEN [ok |-> TRUE, val |-> [path |-> p.val, hash |-> h.val],
          next |-> h.next + 1]
    ELSE BadEntry(i)

EntryPath(b, i, p) ==
    IF p.ok /\ At(b, p.next, Ch.comma)
    THEN EntryHash(b, i, p, ParseString(b, p.next + 1))
    ELSE BadEntry(i)

ParseEntry(b, i) ==
    IF At(b, i, Ch.lbrace) THEN EntryPath(b, i, ParseString(b, i + 1))
    ELSE BadEntry(i)

BadArray(i) == [ok |-> FALSE, val |-> <<>>, next |-> i]

\* The elements of an array after its '[': entries separated by commas, up
\* to the closing ']'.
RECURSIVE ParseElements(_, _, _)
AfterEntry(b, i, acc, e) ==
    IF ~e.ok THEN BadArray(i)
    ELSE IF At(b, e.next, Ch.rbracket)
         THEN [ok |-> TRUE, val |-> Append(acc, e.val), next |-> e.next + 1]
    ELSE IF At(b, e.next, Ch.comma)
         THEN ParseElements(b, e.next + 1, Append(acc, e.val))
    ELSE BadArray(i)

ParseElements(b, i, acc) == AfterEntry(b, i, acc, ParseEntry(b, i))

ParseArray(b, i) ==
    IF ~At(b, i, Ch.lbracket) THEN BadArray(i)
    ELSE IF At(b, i+1, Ch.rbracket)
         THEN [ok |-> TRUE, val |-> <<>>, next |-> i+2]
    ELSE ParseElements(b, i+1, <<>>)

\* serde_json::from_str::<Vec<IndexData>>: the whole input is one array.
WholeArray(b, a) ==
    IF a.ok /\ a.next = Len(b) + 1 THEN [ok |-> TRUE, val |-> a.val]
    ELSE [ok |-> FALSE, val |-> <<>>]

ParseIndex(b) == WholeArray(b, ParseArray(b, 1))

NoCommit == [message |-> <<>>, time_stamp |-> <<>>, files |-> <<>>,
             parent |-> <<>>]
BadCommit == [ok |-> FALSE, val |-> NoCommit]

\* serde_json::from_str::<CommitData>: the whole input is one commit object,
\* '{' message ',' time_stamp ',' files ',' parent '}'.
CommitParent(b, m, t, f, p) ==
    IF p.ok /\ At(b, p.next, Ch.rbrace) /\ p.next = Len(b)
    THEN [ok |-> TRUE,
          val |-> [message |-> m.val, time_stamp |-> t.val, files |-> f.val,
                   parent |-> p.val]]
    ELSE BadCommit

CommitFiles(b, m, t, f) ==
    IF f.ok /\ At(b, f.next, Ch.comma)
    THEN CommitParent(b, m, t, f, ParseString(b, f.next + 1))
    ELSE BadCommit

CommitTime(b, m, t) ==
    IF t.ok /\ At(b, t.next, Ch.comma)
    THEN CommitFiles(b, m, t, ParseArray(b, t.next + 1))
    ELSE BadCommit

CommitMessage(b, m) ==
    IF m.ok /\ At(b, m.next, Ch.comma)
    THEN CommitTime(b, m, ParseString(b, m.next + 1))
    ELSE BadCommit

ParseCommit(b) ==
    IF At(b, 1, Ch.lbrace) THEN CommitMessage(b, ParseString(b, 2))
    ELSE BadCommit

(* ------------------------------- state --------------------------------- *)
\* A write is taken to have reached its file when write_all returns.
VARIABLES
    repo_dir,     \* repo_path.exists()
    objects_dir,  \* objects_path.exists()
    objects,      \* the files of objects/: file name (a hash) -> bytes
    index,        \* the index file: [exists, bytes]
    head,         \* the HEAD file: [exists, bytes]
    history,      \* the add and commit calls that returned, in call order
    out,          \* what the last call did and printed
    calls         \* the call each concurrent caller is in, and its locals

vars == <<repo_dir, objects_dir, objects, index, head, history, out, calls>>

NoFile == [exists |-> FALSE, bytes |-> <<>>]
FileOf(b) == [exists |-> TRUE, bytes |-> b]

\* PutObject as a store that keeps one object: the new one replaces the rest.
PutObjectAlone(store, h, b) == [k \in {h} |-> b]

\* PutObject whose write never reaches the store.
PutObjectDropped(store, h, b) == store

\* File::create(objects/<h>) followed by write_all(b).
PutObject(store, h, b) ==
    [k \in DOMAIN store \cup {h} |-> IF k = h THEN b ELSE store[k]]

\* `line` is the source line of the unwrap that panicked, 0 when none did.
NoOut == [op |-> "none", status |-> "ok", line |-> 0, path |-> <<>>,
          hash |-> <<>>, visited |-> <<>>, report |-> <<>>]

Panic(op, line) == [NoOut EXCEPT !.op = op, !.status = "panic", !.line = line]

AddEvents == {i \in 1..Len(history) : history[i].op = "add"}
CommitEvents == {i \in 1..Len(history) : history[i].op = "commit"}

\* Two Sgvcs values (two processes) working on one repository directory.
Callers == {1, 2}

\* A caller that is in no call. `data` is the parsed index the call read,
\* `parent` the HEAD it read, `json` the commit record it serialised.
Idle == [op |-> "none", pc |-> "idle", line |-> 0, path |-> <<>>,
         bytes |-> <<>>, hash |-> <<>>, data |-> <<>>, parent |-> <<>>,
         message |-> <<>>, json |-> <<>>]

Init ==
    /\ repo_dir = FALSE
    /\ objects_dir = FALSE
    /\ objects = <<>>
    /\ index = NoFile
    /\ head = NoFile
    /\ history = <<>>
    /\ out = NoOut
    /\ calls = [c \in Callers |-> Idle]

(* -------------------------------- init --------------------------------- *)
\* InitIndex without the exists() test: the index is always rewritten.
InitIndexAlways(idx) == FileOf(EmptyArray)

\* The index file after init: written b"[]" only when it did not exist.
InitIndex(idx) == IF idx.exists THEN idx ELSE FileOf(EmptyArray)

\* The HEAD file after init: created empty only when it did not exist.
InitHead(hd) == IF hd.exists THEN hd ELSE FileOf(<<>>)

init ==
    /\ repo_dir' = TRUE
    /\ objects_dir' = TRUE
    /\ index' = InitIndex(index)
    /\ head' = InitHead(head)
    /\ out' = [NoOut EXCEPT !.op = "init"]
    /\ UNCHANGED <<objects, history>>

(* ------------------------------- add_file ------------------------------ *)
\* update_staging_area: read the whole index, push one entry, write it all
\* back. [ok, index]; ok = FALSE is a panic (open, read or parse failed).
StagingPush(idx, file_path, file_hash, data) ==
    IF idx.exists /\ IsUtf8(idx.bytes) /\ data.ok
    THEN [ok |-> TRUE,
          index |-> FileOf(IndexToJson(
                       Append(data.val,
                              [path |-> file_path, hash |-> file_hash])))]
    ELSE [ok |-> FALSE, index |-> idx]

update_staging_area(idx, file_path, file_hash) ==
    StagingPush(idx, file_path, file_hash, ParseIndex(idx.bytes))

\* Line 103 prints the path before anything can fail.
AddPanic(path, line) == [Panic("add", line) EXCEPT !.path = path]

\* Lines 116-117: the index is rewritten and the call returns.
AddStage(path, file, hashed_data, stored, staged) ==
    IF staged.ok
    THEN /\ objects' = stored
         /\ index' = staged.index
         /\ out' = [NoOut EXCEPT !.op = "add", !.path = path,
                                 !.hash = hashed_data]
         /\ history' = Append(history, [op |-> "add", path |-> path,
                                        hash |-> hashed_data,
                                        bytes |-> file.bytes])
         /\ UNCHANGED <<repo_dir, objects_dir, head>>
    ELSE /\ objects' = stored
         /\ out' = AddPanic(path, 124)
         /\ UNCHANGED <<repo_dir, objects_dir, index, head, history>>

\* Lines 108-115: an object that is not there is created and written; one
\* that is there is opened read-only and written to, and that write fails.
\* `surfaced` says whether write_all reports the failure: tokio hands the
\* bytes to a background write and reports its error to the next call on the
\* handle, which comes only for a content longer than its buffer; otherwise
\* the failure is lost with the handle.
AddStore(path, file, surfaced, hashed_data, present) ==
    IF (~present /\ ~objects_dir) \/ (present /\ surfaced)
    THEN /\ out' = AddPanic(path, IF present THEN 114 ELSE 110)
         /\ UNCHANGED <<repo_dir, objects_dir, objects, index, head, history>>
    ELSE AddStage(path, file, hashed_data,
                  IF present THEN objects
                  ELSE PutObject(objects, hashed_data, file.bytes),
                  update_staging_area(index, path, hashed_data))

ObjectExists(h) == objects_dir /\ h \in DOMAIN objects

AddHashed(path, file, surfaced, hashed_data) ==
    AddStore(path, file, surfaced, hashed_data, ObjectExists(hashed_data))

\* add_file(path) when the working-tree file at path is `file`.
add_file(path, file, surfaced) ==
    IF ~file.exists
    THEN /\ out' = AddPanic(path, 104)
         /\ UNCHANGED <<repo_dir, objects_dir, objects, index, head, history>>
    ELSE AddHashed(path, file, surfaced, hash(file.bytes))

(* -------------------------------- commit ------------------------------- *)
\* get_current_head with the read lost: always "".
get_current_head_lost(hd) == <<>>

\* get_current_head that hands on whatever bytes HEAD holds.
get_current_head_raw(hd) == hd.bytes

\* get_current_head: the content of HEAD, or "" when it cannot be opened or
\* read as a string.
get_current_head(hd) ==
    IF hd.exists /\ IsUtf8(hd.bytes) THEN hd.bytes ELSE <<>>

\* Utc::now().format(..): the seconds field, two decimal digits.
FormatTime(t) == <<48 + ((t \div 10) % 10), 48 + (t % 10)>>

\* CommitRecord keeping one entry per path, the last staged.
CommitRecordLastPerPath(message, now, files, parent_commit) ==
    [message |-> message, time_stamp |-> FormatTime(now),
     files |-> SelectSeq(files, LAMBDA e :
                  \A i, j \in 1..Len(files) :
                      (files[i] = e /\ files[j].path = e.path) => j <= i),
     parent |-> parent_commit]

\* The CommitData commit builds from the parsed index and the current HEAD.
CommitRecord(message, now, files, parent_commit) ==
    [message |-> message, time_stamp |-> FormatTime(now), files |-> files,
     parent |-> parent_commit]

\* CommitIndex with the clearing write left out.
CommitIndexKept == index

\* CommitHead with the write left out: HEAD stays as File::create left it.
CommitHeadKept(commit_hash) == head

\* What commit writes to HEAD and to the index once the object is stored.
CommitHead(commit_hash) == FileOf(commit_hash)
CommitIndex == FileOf(EmptyArray)

\* Lines 150-160: the object, then HEAD, then the index.
CommitWrite(commit_json, commit_hash) ==
    /\ objects' = PutObject(objects, commit_hash, commit_json)
    /\ head' = CommitHead(commit_hash)
    /\ index' = CommitIndex
    /\ out' = [NoOut EXCEPT !.op = "commit", !.hash = commit_hash]
    /\ history' = Append(history, [op |-> "commit", path |-> <<>>,
                                   hash |-> commit_hash, bytes |-> <<>>])
    /\ UNCHANGED <<repo_dir, objects_dir>>

CommitJson(commit_json) == CommitWrite(commit_json, hash(commit_json))

\* Lines 136-148: every failure to open, read or parse is an unwrap.
CommitPanicLine(data) ==
    IF ~index.exists THEN 136
    ELSE IF ~IsUtf8(index.bytes) THEN 138
    ELSE IF ~data.ok THEN 144
    ELSE 151

CommitBuild(message, now, data) ==
    IF ~index.exists \/ ~IsUtf8(index.bytes) \/ ~data.ok \/ ~objects_dir
    THEN /\ out' = Panic("commit", CommitPanicLine(data))
         /\ UNCHANGED <<repo_dir, objects_dir, objects, index, head, history>>
    ELSE CommitJson(CommitToJson(
             CommitRecord(message, now, data.val, get_current_head(head))))

\* commit(message) when Utc::now() reads `now`.
commit(message, now) == CommitBuild(message, now, ParseIndex(index.bytes))

(* --------------------------------- log --------------------------------- *)
\* The loop of log from current_hash on: every pass opens the object, reads
\* it as a string and parses it as CommitData (each of them unwrapped), then
\* moves to the parent. `fuel` bounds the passes: a walk that is still going
\* after one pass per stored object is in a cycle.
RECURSIVE LogWalk(_, _, _)
LogStop(status, line, visited) ==
    [status |-> status, line |-> line, visited |-> visited]

\* LogVisit that prints the commit and leaves the loop.
LogVisitOnce(current_hash, fuel, visited, parsed) ==
    IF ~parsed.ok THEN LogStop("panic", 185, visited)
    ELSE LogStop("ok", 0, Append(visited, [hash |-> current_hash,
                                             commit |-> parsed.val]))

\* LogVisit that does not move to the parent.
LogVisitSame(current_hash, fuel, visited, parsed) ==
    IF ~parsed.ok THEN LogStop("panic", 185, visited)
    ELSE LogWalk(current_hash, fuel - 1,
                 Append(visited, [hash |-> current_hash,
                                  commit |-> parsed.val]))

LogVisit(current_hash, fuel, visited, parsed) ==
    IF ~parsed.ok THEN LogStop("panic", 185, visited)
    ELSE LogWalk(parsed.val.parent, fuel - 1,
                 Append(visited, [hash |-> current_hash,
                                  commit |-> parsed.val]))

LogWalk(current_hash, fuel, visited) ==
    IF current_hash = <<>> THEN LogStop("ok", 0, visited)
    ELSE IF fuel = 0 THEN LogStop("diverges", 0, visited)
    ELSE IF current_hash \notin DOMAIN objects
         THEN LogStop("panic", 181, visited)
    ELSE IF ~IsUtf8(objects[current_hash])
         THEN LogStop("panic", 183, visited)
    ELSE LogVisit(current_hash, fuel, visited,
                  ParseCommit(objects[current_hash]))

LogOut(walk) ==
    /\ out' = [NoOut EXCEPT !.op = "log", !.status = walk.status,
                            !.line = walk.line, !.visited = walk.visited]
    /\ UNCHANGED <<repo_dir, objects_dir, objects, index, head, history>>

log == LogOut(LogWalk(get_current_head(head),
                      Cardinality(DOMAIN objects) + 1, <<>>))

(* --------------------------- show_commit_diff -------------------------- *)
\* get_commit_data: None when the object cannot be opened; otherwise the
\* read and the parse are unwrapped. Joining "" to objects_path names the
\* objects directory itself, which opens and then fails to read.
CommitDataOf(parsed) ==
    IF parsed.ok THEN [status |-> "some", line |-> 0, val |-> parsed.val]
    ELSE [status |-> "panic", line |-> 236, val |-> NoCommit]

get_commit_data(commithash) ==
    IF ~objects_dir \/ (commithash # <<>> /\ commithash \notin DOMAIN objects)
    THEN [status |-> "none", line |-> 0, val |-> NoCommit]
    ELSE IF commithash = <<>> \/ ~IsUtf8(objects[commithash])
         THEN [status |-> "panic", line |-> 235, val |-> NoCommit]
    ELSE CommitDataOf(ParseCommit(objects[commithash]))

\* get_file_contents: open and read_to_string, both unwrapped.
get_file_contents(file_hash) ==
    IF file_hash \notin DOMAIN objects
    THEN [ok |-> FALSE, line |-> 260, val |-> <<>>]
    ELSE IF ~IsUtf8(objects[file_hash])
         THEN [ok |-> FALSE, line |-> 262, val |-> <<>>]
    ELSE [ok |-> TRUE, line |-> 0, val |-> objects[file_hash]]

\* The path show_commit_diff looks up in the parent's file list.
ParentLookupPath(path) == PathJoin(objects_path, path)

\* get_parent_file_content: the first entry of the parent's files whose path
\* equals file_path, and its content.
ParentContent(c) ==
    IF c.ok THEN [status |-> "some", line |-> 0, val |-> c.val]
    ELSE [status |-> "panic", line |-> c.line, val |-> <<>>]

FirstWithPath(files, found) ==
    IF found = {} THEN [status |-> "none", line |-> 0, val |-> <<>>]
    ELSE ParentContent(get_file_contents(
             files[CHOOSE k \in found : \A l \in found : k <= l].hash))

get_parent_file_content(parent_commit_data, file_path) ==
    FirstWithPath(parent_commit_data.files,
                  {i \in 1..Len(parent_commit_data.files) :
                       parent_commit_data.files[i].path = file_path})

\* What the loop body of show_commit_diff prints for one file of the commit
\* `cdata`: the path, the content, and the parent side: "first" (First
\* commit), "no_parent" (Parent commit not found), "none" or "some" (the
\* Option printed); side = "panic" when an unwrap stopped the loop.
DiffPrinted(file, content, side, line, parent) ==
    [path |-> file.path, content |-> content, side |-> side, line |-> line,
     parent |-> parent]

DiffSide(file, content, theirs) ==
    DiffPrinted(file, content, theirs.status, theirs.line, theirs.val)

DiffParent(file, content, parent_data) ==
    IF parent_data.status = "none"
    THEN DiffPrinted(file, content, "no_parent", 0, <<>>)
    ELSE IF parent_data.status = "panic"
         THEN DiffPrinted(file, content, "panic", parent_data.line, <<>>)
    ELSE DiffSide(file, content,
                  get_parent_file_content(parent_data.val,
                                          ParentLookupPath(file.path)))

DiffContent(cdata, file, file_content) ==
    IF ~file_content.ok
    THEN DiffPrinted(file, <<>>, "panic", file_content.line, <<>>)
    ELSE IF cdata.parent = <<>>
         THEN DiffPrinted(file, file_content.val, "first", 0, <<>>)
    ELSE DiffParent(file, file_content.val, get_commit_data(cdata.parent))

DiffLine(cdata, file) == DiffContent(cdata, file, get_file_contents(file.hash))

\* The for loop over cdata.files: the lines printed, up to the first panic.
RECURSIVE DiffLines(_, _, _)
DiffNext(cdata, files, report, printed) ==
    IF printed.side = "panic" THEN Append(report, printed)
    ELSE DiffLines(cdata, Tail(files), Append(report, printed))

DiffLines(cdata, files, report) ==
    IF files = <<>> THEN report
    ELSE DiffNext(cdata, files, report, DiffLine(cdata, Head(files)))

\* How show_commit_diff ends: "not_found" (Commit not found), a panic at
\* the line of the unwrap, or "ok".
DiffEnd(commit_data, report) ==
    IF commit_data.status = "none" THEN [status |-> "not_found", line |-> 0]
    ELSE IF commit_data.status = "panic"
         THEN [status |-> "panic", line |-> commit_data.line]
    ELSE IF report # <<>> /\ report[Len(report)].side = "panic"
         THEN [status |-> "panic", line |-> report[Len(report)].line]
    ELSE [status |-> "ok", line |-> 0]

DiffOut(commithash, end, report) ==
    /\ out' = [NoOut EXCEPT !.op = "diff", !.status = end.status,
                            !.line = end.line, !.hash = commithash,
                            !.report = report]
    /\ UNCHANGED <<repo_dir, objects_dir, objects, index, head, history>>

DiffReport(commithash, commit_data, report) ==
    DiffOut(commithash, DiffEnd(commit_data, report), report)

DiffCommit(commithash, commit_data) ==
    DiffReport(commithash, commit_data,
               DiffLines(commit_data.val, commit_data.val.files, <<>>))

show_commit_diff(commithash) ==
    DiffCommit(commithash, get_commit_data(commithash))

\* The hashes handed to show_commit_diff: every stored object's, the empty
\* string, and the hash of a content that was never stored.
DiffArgs == DOMAIN objects \cup {<<>>, hash(<<120>>)}

(* ------------------------------ environment ---------------------------- *)

\* The working-tree file add_file opens: one of the contents, or missing.
WorkingFiles == {FileOf(c) : c \in Contents} \cup {NoFile}

\* Whether the write to a read-only handle is reported: open only when the
\* object is already stored.
WriteOutcomes(file) ==
    IF file.exists /\ ObjectExists(hash(file.bytes)) THEN BOOLEAN ELSE {FALSE}

\* One caller: every call runs from its first line to its last before the
\* next one starts.
Next ==
    \/ init /\ UNCHANGED calls
    \/ /\ Cardinality(AddEvents) < MaxAdds
       /\ \E path \in Paths, file \in WorkingFiles :
              \E surfaced \in WriteOutcomes(file) :
                  add_file(path, file, surfaced)
       /\ UNCHANGED calls
    \/ /\ Cardinality(CommitEvents) < MaxCommits
       /\ \E message \in Messages, now \in Seconds : commit(message, now)
       /\ UNCHANGED calls
    \/ log /\ UNCHANGED calls
    \/ (\E commithash \in DiffArgs : show_commit_diff(commithash))
          /\ UNCHANGED calls

Spec == Init /\ [][Next]_vars

(* -------------------------- concurrent callers ------------------------- *)
\* Two callers on one repository directory. A call is a sequence of steps,
\* one per access to a file of the repository; the steps of the two callers
\* interleave. A caller whose call panicked is a process that has aborted.

\* The files a concurrent add is given: one path, two contents.
StepFiles == {[path |-> <<97>>, bytes |-> <<104>>],
              [path |-> <<97>>, bytes |-> <<119>>]}

\* The calls of an operation that have started: returned, running or aborted.
Started(op) ==
    Cardinality({i \in 1..Len(history) : history[i].op = op})
        + Cardinality({c \in Callers : calls[c].op = op})

\* Whether one more call may start.
MayStart(op, max) ==
    Started(op) < max /\ Started("add") + Started("commit") < MaxCalls

\* The call of caller c moves to pc / stops at the unwrap of `line`.
Goto(c, pc) == calls' = [calls EXCEPT ![c].pc = pc]
Abort(c, line) == calls' = [calls EXCEPT ![c].pc = "panic", ![c].line = line]

\* The call of caller c returns: it is appended to the calls that returned.
Return(c) ==
    /\ history' = Append(history, [op |-> calls[c].op,
                                   path |-> calls[c].path,
                                   hash |-> calls[c].hash,
                                   bytes |-> calls[c].bytes,
                                   caller |-> c,
                                   data |-> calls[c].data,
                                   parent |-> calls[c].parent])
    /\ calls' = [calls EXCEPT ![c] = Idle]

\* add_file, lines 104-107: the working-tree file is read and hashed.
AddBegin(c, file) ==
    /\ calls[c].pc = "idle"
    /\ MayStart("add", MaxAdds)
    /\ calls' = [calls EXCEPT ![c] = [Idle EXCEPT !.op = "add",
                                                  !.pc = "add_store",
                                                  !.path = file.path,
                                                  !.bytes = file.bytes,
                                                  !.hash = hash(file.bytes)]]
    /\ UNCHANGED <<repo_dir, objects_dir, objects, index, head, history, out>>

\* add_file, lines 108-115: the object is created and written, or, when it
\* is there, opened read-only and written to.
AddStoreStep(c, surfaced) ==
    /\ calls[c].pc = "add_store"
    /\ IF ObjectExists(calls[c].hash)
       THEN /\ IF surfaced THEN Abort(c, 114) ELSE Goto(c, "staging_read")
            /\ UNCHANGED objects
       ELSE /\ objects' = PutObject(objects, calls[c].hash, calls[c].bytes)
            /\ Goto(c, "staging_read")
    /\ UNCHANGED <<repo_dir, objects_dir, index, head, history, out>>

\* update_staging_area, lines 121-124: the index is opened, read and parsed.
StagingParsed(c, data) ==
    IF ~index.exists THEN Abort(c, 121)
    ELSE IF ~IsUtf8(index.bytes) THEN Abort(c, 123)
    ELSE IF ~data.ok THEN Abort(c, 124)
    ELSE calls' = [calls EXCEPT ![c].pc = "staging_create",
                                ![c].data = data.val]

StagingRead(c) ==
    /\ calls[c].pc = "staging_read"
    /\ StagingParsed(c, ParseIndex(index.bytes))
    /\ UNCHANGED <<repo_dir, objects_dir, objects, index, head, history, out>>

\* update_staging_area, line 131: File::create truncates the index.
StagingCreate(c) ==
    /\ calls[c].pc = "staging_create"
    /\ index' = FileOf(<<>>)
    /\ Goto(c, "staging_write")
    /\ UNCHANGED <<repo_dir, objects_dir, objects, head, history, out>>

\* StagingBytes as if the index were read when it is written: the entries
\* of every call that has returned, and the call's own.
StagingBytesSerial(call) ==
    IndexToJson(Append([i \in 1..Len(history) |->
                           [path |-> history[i].path, hash |-> history[i].hash]],
                       [path |-> call.path, hash |-> call.hash]))

\* StagingBytes that writes the call's own entry and drops what it read.
StagingBytesOwn(call) ==
    IndexToJson(<<[path |-> call.path, hash |-> call.hash]>>)

\* The bytes line 132 writes: the entries the call read and its own entry.
StagingBytes(call) ==
    IndexToJson(Append(call.data, [path |-> call.path, hash |-> call.hash]))

\* update_staging_area, line 132, and the return of add_file.
StagingWrite(c) ==
    /\ calls[c].pc = "staging_write"
    /\ index' = FileOf(StagingBytes(calls[c]))
    /\ Return(c)
    /\ UNCHANGED <<repo_dir, objects_dir, objects, head, out>>

\* commit, lines 136-138: the index is opened and read; `data` keeps what
\* line 144 will make of the buffer.
CommitIndexRead(c, message) ==
    IF ~index.exists THEN Abort(c, 136)
    ELSE IF ~IsUtf8(index.bytes) THEN Abort(c, 138)
    ELSE calls' = [calls EXCEPT ![c] = [Idle EXCEPT
                       !.op = "commit", !.pc = "commit_head",
                       !.message = message,
                       !.data = ParseIndex(index.bytes)]]

CommitBegin(c, message) ==
    /\ calls[c].pc = "idle"
    /\ MayStart("commit", MaxCommits)
    /\ CommitIndexRead(c, message)
    /\ UNCHANGED <<repo_dir, objects_dir, objects, index, head, history, out>>

\* The record of lines 141-149 for the HEAD the call has just read.
CommitBuilt(c, commit_json, parent_commit) ==
    calls' = [calls EXCEPT ![c].pc = "commit_create_object",
                           ![c].parent = parent_commit,
                           ![c].data = calls[c].data.val,
                           ![c].json = commit_json,
                           ![c].hash = hash(commit_json)]

CommitParentRead(c, now, parent_commit) ==
    IF ~calls[c].data.ok THEN Abort(c, 144)
    ELSE CommitBuilt(c, CommitToJson(CommitRecord(calls[c].message, now,
                                                  calls[c].data.val,
                                                  parent_commit)),
                     parent_commit)

\* commit, lines 139-149: HEAD is read, the record is built and hashed.
CommitReadHead(c, now) ==
    /\ calls[c].pc = "commit_head"
    /\ CommitParentRead(c, now, get_current_head(head))
    /\ UNCHANGED <<repo_dir, objects_dir, objects, index, head, history, out>>

\* CommitStepAfter with HEAD written before the object's bytes.
CommitStepAfterHeadFirst(pc) ==
    CASE pc = "commit_create_object" -> "commit_create_head"
      [] pc = "commit_create_head" -> "commit_write_head"
      [] pc = "commit_write_head" -> "commit_write_object"
      [] pc = "commit_write_object" -> "commit_create_index"
      [] pc = "commit_create_index" -> "commit_write_index"
      [] OTHER -> "idle"

\* The order of the writes of commit, lines 151-158.
CommitStepAfter(pc) ==
    CASE pc = "commit_create_object" -> "commit_write_object"
      [] pc = "commit_write_object" -> "commit_create_head"
      [] pc = "commit_create_head" -> "commit_write_head"
      [] pc = "commit_write_head" -> "commit_create_index"
      [] pc = "commit_create_index" -> "commit_write_index"
      [] OTHER -> "idle"

\* commit, line 151: File::create makes or truncates the object file.
CommitCreateObject(c) ==
    /\ calls[c].pc = "commit_create_object"
    /\ objects' = PutObject(objects, calls[c].hash, <<>>)
    /\ Goto(c, CommitStepAfter(calls[c].pc))
    /\ UNCHANGED <<repo_dir, objects_dir, index, head, history, out>>

\* commit, line 152.
CommitWriteObject(c) ==
    /\ calls[c].pc = "commit_write_object"
    /\ objects' = PutObject(objects, calls[c].hash, calls[c].json)
    /\ Goto(c, CommitStepAfter(calls[c].pc))
    /\ UNCHANGED <<repo_dir, objects_dir, index, head, history, out>>

\* commit, line 154: File::create truncates HEAD.
CommitCreateHead(c) ==
    /\ calls[c].pc = "commit_create_head"
    /\ head' = FileOf(<<>>)
    /\ Goto(c, CommitStepAfter(calls[c].pc))
    /\ UNCHANGED <<repo_dir, objects_dir, objects, index, history, out>>

\* commit, line 155.
CommitWriteHead(c) ==
    /\ calls[c].pc = "commit_write_head"
    /\ head' = CommitHead(calls[c].hash)
    /\ Goto(c, CommitStepAfter(calls[c].pc))
    /\ UNCHANGED <<repo_dir, objects_dir, objects, index, history, out>>

\* commit, line 157: File::create truncates the index.
CommitCreateIndex(c) ==
    /\ calls[c].pc = "commit_create_index"
    /\ index' = FileOf(<<>>)
    /\ Goto(c, CommitStepAfter(calls[c].pc))
    /\ UNCHANGED <<repo_dir, objects_dir, objects, head, history, out>>

\* commit, line 158, and the return of commit.
CommitWriteIndex(c) ==
    /\ calls[c].pc = "commit_write_index"
    /\ index' = CommitIndex
    /\ Return(c)
    /\ UNCHANGED <<repo_dir, objects_dir, objects, head, out>>

\* The repository both callers find: new_async has run init on it.
StepInit ==
    /\ repo_dir = TRUE
    /\ objects_dir = TRUE
    /\ objects = <<>>
    /\ index = InitIndex(NoFile)
    /\ head = InitHead(NoFile)
    /\ history = <<>>
    /\ out = NoOut
    /\ calls = [c \in Callers |-> Idle]

StepNext ==
    \E c \in Callers :
        \/ \E file \in StepFiles : AddBegin(c, file)
        \/ \E surfaced \in
                 (IF ObjectExists(calls[c].hash) THEN BOOLEAN ELSE {FALSE}) :
              AddStoreStep(c, surfaced)
        \/ StagingRead(c)
        \/ StagingCreate(c)
        \/ StagingWrite(c)
        \/ \E message \in Messages : CommitBegin(c, message)
        \/ \E now \in Seconds : CommitReadHead(c, now)
        \/ CommitCreateObject(c)
        \/ CommitWriteObject(c)
        \/ CommitCreateHead(c)
        \/ CommitWriteHead(c)
        \/ CommitCreateIndex(c)
        \/ CommitWriteIndex(c)

SpecSteps == StepInit /\ [][StepNext]_vars

(* --------------------------- damaged repository ------------------------ *)
\* One caller on a repository whose HEAD or index file something outside
\* Sgvcs has removed or overwritten: the states in which the Err arms of
\* get_current_head and the unwraps on the index are taken.

\* HEAD missing, or holding bytes read_to_string rejects.
LostHeads == {NoFile, FileOf(<<255>>)}

\* An index file that is not a JSON list: "{}".
BrokenIndexes == {FileOf(<<Ch.lbrace, Ch.rbrace>>)}

\* Whether get_current_head takes one of its Err arms on hd.
HeadLost(hd) == ~hd.exists \/ ~IsUtf8(hd.bytes)

HeadDamaged ==
    /\ \E hd \in LostHeads : hd # head /\ head' = hd
    /\ UNCHANGED <<repo_dir, objects_dir, objects, index, history, out, calls>>

IndexDamaged ==
    /\ \E idx \in BrokenIndexes : idx # index /\ index' = idx
    /\ UNCHANGED <<repo_dir, objects_dir, objects, head, history, out, calls>>

DamagedNext ==
    \/ HeadDamaged
    \/ IndexDamaged
    \/ /\ Cardinality(AddEvents) < MaxAdds
       /\ \E file \in StepFiles : add_file(file.path, FileOf(file.bytes), FALSE)
       /\ UNCHANGED calls
    \/ /\ Cardinality(CommitEvents) < MaxCommits
       /\ \E message \in Messages, now \in Seconds : commit(message, now)
       /\ UNCHANGED calls
    \/ log /\ UNCHANGED calls

SpecDamaged == StepInit /\ [][DamagedNext]_vars

(* ------------------------------ properties ----------------------------- *)
\* All four paths of the repository exist.
Initialised == repo_dir /\ objects_dir /\ index.exists /\ head.exists

\* The hashes commit printed, oldest first.
CommitHashes ==
    LET cs == SelectSeq(history, LAMBDA e : e.op = "commit")
    IN [i \in 1..Len(cs) |-> cs[i].hash]

\* The commit record stored under h.
RecordAt(h) == ParseCommit(objects[h]).val

\* The entries of the adds that returned between history[from] and history[to].
AddedBetween(from, to) ==
    LET es == SelectSeq(SubSeq(history, from + 1, to - 1),
                        LAMBDA e : e.op = "add")
    IN [i \in 1..Len(es) |-> [path |-> es[i].path, hash |-> es[i].hash]]

\* The last commit event before history[k], 0 when there is none.
CommitBefore(k) ==
    LET earlier == {j \in CommitEvents : j < k}
    IN IF earlier = {} THEN 0
       ELSE CHOOSE j \in earlier : \A l \in earlier : l <= j

\* C1: when a commit has completed, the staging index is the empty list and
\* HEAD holds the hash under which that commit's record is stored.
C1_CommitClearsIndexAndSetsHead ==
    (out.op = "commit" /\ out.status = "ok") =>
        /\ index.exists
        /\ ParseIndex(index.bytes) = [ok |-> TRUE, val |-> <<>>]
        /\ head = FileOf(out.hash)
        /\ out.hash \in DOMAIN objects
        /\ ParseCommit(objects[out.hash]).ok
        /\ hash(objects[out.hash]) = out.hash

\* A commit of a staged entry has just completed.
C1_Witness ==
    /\ out.op = "commit"
    /\ out.status = "ok"
    /\ out.hash \in DOMAIN objects
    /\ Len(RecordAt(out.hash).files) >= 1

\* C2: after N commits, log visits exactly the N commit records, the most
\* recent first; each visited record's parent is the hash of the record
\* visited next, and the last visited record's parent is the empty string.
C2_LogVisitsTheChain ==
    out.op = "log" =>
        /\ out.status = "ok"
        /\ Len(out.visited) = Len(CommitHashes)
        /\ \A i \in 1..Len(out.visited) :
              /\ out.visited[i].hash = CommitHashes[Len(CommitHashes) + 1 - i]
              /\ out.visited[i].commit = RecordAt(out.visited[i].hash)
              /\ out.visited[i].commit.parent =
                    IF i < Len(out.visited) THEN out.visited[i + 1].hash
                    ELSE <<>>

\* log has just walked a chain of two commits.
C2_Witness == out.op = "log" /\ Len(out.visited) = 2 /\ Len(CommitHashes) = 2

\* C3: every commit record stores as parent the value HEAD had when commit
\* was called: the empty string for the first commit, otherwise the hash of
\* the commit before it.
C3_ParentIsHeadAtCall ==
    /\ [](\A k \in 1..Len(CommitHashes) :
            /\ CommitHashes[k] \in DOMAIN objects
            /\ RecordAt(CommitHashes[k]).parent =
                  IF k = 1 THEN <<>> ELSE CommitHashes[k - 1])
    /\ [][(out'.op = "commit" /\ out'.status = "ok" /\ history' # history) =>
             ParseCommit(objects'[out'.hash]).val.parent =
                 IF head.exists THEN head.bytes ELSE <<>>]_vars

\* A second commit has been made on top of a first.
C3_Witness ==
    /\ Len(CommitHashes) = 2
    /\ RecordAt(CommitHashes[2]).parent = CommitHashes[1]
    /\ RecordAt(CommitHashes[1]).parent = <<>>

\* C4: show_commit_diff on a commit whose parent is present reports, for
\* each file, the blob of the parent's entry with the same path when the
\* parent has one, and no parent side only when it has none.
C4_DiffReportsParentContent ==
    (/\ out.op = "diff"
     /\ out.status = "ok"
     /\ RecordAt(out.hash).parent \in DOMAIN objects) =>
        LET theirs == RecordAt(RecordAt(out.hash).parent).files
        IN \A i \in 1..Len(out.report) :
              LET same == {j \in 1..Len(theirs) :
                              theirs[j].path = out.report[i].path}
              IN IF same = {} THEN out.report[i].side = "none"
                 ELSE /\ out.report[i].side = "some"
                      /\ \E j \in same :
                            out.report[i].parent = objects[theirs[j].hash]

\* C5: the files of every commit record are the staging index as it was when
\* commit was called: the entries added since the commit before it, in call
\* order, duplicates of a path kept; a commit of nothing staged is accepted
\* and advances HEAD.
C5_CommitFilesAreTheStagedEntries ==
    /\ \A k \in CommitEvents :
          /\ history[k].hash \in DOMAIN objects
          /\ RecordAt(history[k].hash).files = AddedBetween(CommitBefore(k), k)
    /\ (out.op = "commit" /\ Initialised) =>
          (out.status = "ok" /\ head = FileOf(out.hash))

\* One commit recorded two entries of the same path, another recorded none.
C5_Witness ==
    /\ \E k \in CommitEvents :
          LET files == RecordAt(history[k].hash).files
          IN /\ Len(files) = 2
             /\ files[1].path = files[2].path
             /\ files[1].hash # files[2].hash
    /\ \E k \in CommitEvents :
          /\ RecordAt(history[k].hash).files = <<>>
          /\ head = FileOf(history[k].hash)

\* C6: each add of an existing file appends exactly one entry {path, hash of
\* the file's bytes} at the end of the staging index and keeps the earlier
\* entries in order.
C6_AddAppendsOneEntry ==
    [][(out'.op = "add" /\ out' # out /\ Initialised /\ out'.line # 104) =>
          /\ out'.status = "ok"
          /\ ParseIndex(index'.bytes).ok
          /\ ParseIndex(index'.bytes).val =
                Append(ParseIndex(index.bytes).val,
                       [path |-> out'.path, hash |-> out'.hash])
          /\ out'.hash = hash(history'[Len(history')].bytes)]_vars

\* C7: adding content whose hash is already a key of the object store
\* completes without error and leaves the object store unchanged; only the
\* staging index gains an entry. (An add that ends at line 114 is one whose
\* object was already stored.)
C7_AddOfStoredContentSucceeds ==
    [][(/\ out'.op = "add"
        /\ out' # out
        /\ \/ out'.line = 114
           \/ out'.status = "ok" /\ out'.hash \in DOMAIN objects) =>
          /\ out'.status = "ok"
          /\ objects' = objects
          /\ Len(ParseIndex(index'.bytes).val) =
                Len(ParseIndex(index.bytes).val) + 1
          /\ head' = head]_vars

\* C8: for every byte sequence B that add has stored, reading the object
\* under hash(B) as get_file_contents does returns exactly B.
C8_StoredContentReadsBack ==
    \A k \in AddEvents :
        /\ history[k].hash = hash(history[k].bytes)
        /\ get_file_contents(history[k].hash).ok
        /\ get_file_contents(history[k].hash).val = history[k].bytes

\* C9: the object store only grows: a hash that is a key of the store stays
\* a key, with the same bytes, in every later state.
C9_StoreOnlyGrows ==
    [][\A h \in DOMAIN objects :
          h \in DOMAIN objects' /\ objects'[h] = objects[h]]_vars

\* The store holds file blobs and commit records, written over several
\* adds and commits, one of them an add of content already stored.
C9_Witness ==
    /\ Cardinality(DOMAIN objects) >= 3
    /\ Cardinality(CommitEvents) >= 1
    /\ \E i, j \in AddEvents : i < j /\ history[i].hash = history[j].hash

\* C10: init on an initialised repository succeeds and leaves the object
\* store, the staging index and HEAD as they were.
C10_InitKeepsAnInitialisedRepository ==
    [][(out'.op = "init" /\ out' # out /\ Initialised) =>
          /\ out'.status = "ok"
          /\ objects' = objects
          /\ index' = index
          /\ head' = head
          /\ Initialised']_vars

\* init has just run on a repository with a commit and a staged entry.
C10_Witness ==
    /\ out.op = "init"
    /\ Cardinality(CommitEvents) >= 1
    /\ head.bytes # <<>>
    /\ ParseIndex(index.bytes).val # <<>>

\* C11: show_commit_diff called with a hash that is not a key of the object
\* store reports "not found", does not abort, and leaves the object store,
\* the staging index and HEAD unchanged.
C11_DiffOfUnknownHashReportsNotFound ==
    [][(out'.op = "diff" /\ out' # out /\ out'.hash \notin DOMAIN objects) =>
          /\ out'.status = "not_found"
          /\ objects' = objects
          /\ index' = index
          /\ head' = head]_vars

\* C12: log terminates on every commit chain built by add and commit: it
\* stops at a record whose parent is the empty string, visits nothing when
\* HEAD is empty, and visits no commit twice.
C12_LogTerminates ==
    out.op = "log" =>
        /\ out.status = "ok"
        /\ get_current_head(head) = <<>> => out.visited = <<>>
        /\ out.visited # <<>> =>
              out.visited[Len(out.visited)].commit.parent = <<>>
        /\ \A i, j \in 1..Len(out.visited) :
              out.visited[i].hash = out.visited[j].hash => i = j

\* log has just walked from a non-empty HEAD down to the root commit.
C12_Witness ==
    /\ out.op = "log"
    /\ head.bytes # <<>>
    /\ Len(out.visited) >= 2
    /\ out.visited[1].hash = head.bytes
    /\ out.visited[Len(out.visited)].commit.parent = <<>>
    /\ Cardinality(AddEvents) >= 1

\* No caller is inside a call, and none has aborted.
Quiet == \A c \in Callers : calls[c].pc = "idle"

\* The index entry of a returned add.
EntryOf(e) == [path |-> e.path, hash |-> e.hash]

\* C13: when two adds interleave their read and write of the index file, an
\* update is lost: if both adds read the index before either wrote it (both
\* read the same list), then once both have returned the index holds what
\* they read and the entry of the add that wrote last, and not the other's.
C13_InterleavedAddsLoseAnUpdate ==
    (/\ Quiet
     /\ Len(history) = 2
     /\ history[1].op = "add"
     /\ history[2].op = "add"
     /\ history[1].data = history[2].data) =>
        /\ ParseIndex(index.bytes).ok
        /\ ParseIndex(index.bytes).val =
              Append(history[2].data, EntryOf(history[2]))
        /\ Len(ParseIndex(index.bytes).val) = 1

\* Two adds of different contents by different callers have both returned
\* and the index holds one entry, which is not the first add's.
C13_Witness ==
    /\ Quiet
    /\ Len(history) = 2
    /\ history[1].op = "add"
    /\ history[2].op = "add"
    /\ history[1].caller # history[2].caller
    /\ history[1].hash # history[2].hash
    /\ {history[1].hash, history[2].hash} \subseteq DOMAIN objects
    /\ ParseIndex(index.bytes).val = <<EntryOf(history[2])>>

\* The entries recorded in the files of the commits that have returned.
Committed ==
    UNION {{history[k].data[i] : i \in 1..Len(history[k].data)} :
              k \in CommitEvents}

\* The entries of the index file (none when it does not parse).
Staged ==
    {ParseIndex(index.bytes).val[i] :
         i \in 1..Len(ParseIndex(index.bytes).val)}

C14_LostEntry ==
    /\ Quiet
    /\ Len(history) = 2
    /\ history[1].op = "add"
    /\ history[2].op = "commit"
    /\ EntryOf(history[1]) \notin Staged
    /\ EntryOf(history[1]) \notin Committed
    /\ history[1].hash \in DOMAIN objects

\* C15: get_current_head returns the content of HEAD, and the empty string,
\* without an error, when HEAD is missing or unreadable; in that state log
\* visits nothing and commit records an empty parent.
C15_LostHeadReadsAsNoCommit ==
    [][/\ (out'.op = "log" /\ out' # out /\ HeadLost(head)) =>
             (out'.status = "ok" /\ out'.visited = <<>>)
       /\ (out'.op = "commit" /\ out' # out /\ ParseIndex(index.bytes).ok) =>
             /\ out'.status = "ok"
             /\ out'.hash \in DOMAIN objects'
             /\ ParseCommit(objects'[out'.hash]).val.parent =
                   IF HeadLost(head) THEN <<>> ELSE head.bytes]_vars

\* A commit made after HEAD was lost is a root commit, although an earlier
\* commit is in the store; log has then walked from it and visited it alone.
C15_Witness ==
    /\ out.op = "log"
    /\ Len(CommitHashes) = 2
    /\ CommitHashes[1] # CommitHashes[2]
    /\ RecordAt(CommitHashes[2]).parent = <<>>
    /\ head.bytes = CommitHashes[2]
    /\ Len(out.visited) = 1

\* C16: commit called while the staging index does not parse as a list of
\* entries ends in an error returned to the caller, not in a process abort,
\* and writes no commit object and leaves HEAD and the index unchanged.
C16_CommitOnBrokenIndexReturnsError ==
    [][(/\ out'.op = "commit"
        /\ out' # out
        /\ index.exists
        /\ IsUtf8(index.bytes)
        /\ ~ParseIndex(index.bytes).ok) =>
          /\ out'.status # "panic"
          /\ objects' = objects
          /\ head' = head
          /\ index' = index]_vars

\* C17: loading a commit by a hash that addresses an object which is not a
\* commit record (a file blob stored by add), as show_commit_diff does, ends
\* in an error outcome and not in a process abort, and leaves the repository
\* unchanged.
C17_DiffOfBlobReturnsError ==
    [][(/\ out'.op = "diff"
        /\ out' # out
        /\ out'.hash \in DOMAIN objects
        /\ IsUtf8(objects[out'.hash])
        /\ ~ParseCommit(objects[out'.hash]).ok) =>
          /\ out'.status # "panic"
          /\ objects' = objects
          /\ head' = head
          /\ index' = index]_vars

\* The stored objects that are commit records.
CommitObjects == {h \in DOMAIN objects : ParseCommit(objects[h]).ok}

\* The hashes of a list of entries.
HashesOf(entries) == {entries[i].hash : i \in 1..Len(entries)}

\* C18: referential integrity in every state of sequential init, add and
\* commit: HEAD is empty or the hash of a stored commit record; a non-empty
\* parent of a stored commit record is the hash of a stored commit record;
\* the hash of every entry of the index and of every stored commit's files is
\* a key of the object store.
C18_ReferentialIntegrity ==
    /\ head.exists => (head.bytes = <<>> \/ head.bytes \in CommitObjects)
    /\ \A h \in CommitObjects :
          /\ RecordAt(h).parent = <<>> \/ RecordAt(h).parent \in CommitObjects
          /\ HashesOf(RecordAt(h).files) \subseteq DOMAIN objects
    /\ index.exists =>
          /\ ParseIndex(index.bytes).ok
          /\ HashesOf(ParseIndex(index.bytes).val) \subseteq DOMAIN objects

\* HEAD names a commit with a parent and with files, and an entry is staged.
C18_Witness ==
    /\ head.exists
    /\ head.bytes \in CommitObjects
    /\ RecordAt(head.bytes).parent \in CommitObjects
    /\ RecordAt(head.bytes).files # <<>>
    /\ ParseIndex(index.bytes).val # <<>>

\* Caller c is the only one that has ever made a call.
OnlyCaller(c) ==
    /\ \A d \in Callers \ {c} : calls[d] = Idle
    /\ \A i \in 1..Len(history) : history[i].caller = c

\* Caller c takes a step of a commit.
CommitStepOf(c) == calls[c].op = "commit" /\ calls'[c] # calls[c]

\* C19: commit writes the commit object, then HEAD, then clears the index.
\* In every state, those inside a commit included, a non-empty HEAD is the
\* hash of an object present in the store. For a caller working alone it is
\* the hash of a stored commit record, and the commit touches the index only
\* when HEAD already names its own stored record, never while HEAD still
\* holds the hash of the commit before it.
C19_CommitWritesObjectThenHeadThenIndex ==
    /\ [](head.bytes # <<>> => head.bytes \in DOMAIN objects)
    /\ [](\A c \in Callers :
            (OnlyCaller(c) /\ head.bytes # <<>>) =>
                head.bytes \in CommitObjects)
    /\ [][\A c \in Callers :
            /\ (CommitStepOf(c) /\ head' # head /\ head'.bytes # <<>>) =>
                  /\ head'.bytes = calls[c].hash
                  /\ calls[c].hash \in DOMAIN objects
                  /\ OnlyCaller(c) => objects[calls[c].hash] = calls[c].json
            /\ (CommitStepOf(c) /\ index' # index) =>
                  /\ calls[c].hash \in DOMAIN objects
                  /\ OnlyCaller(c) =>
                        /\ head.bytes = calls[c].hash
                        /\ head.bytes # calls[c].parent
                        /\ objects[calls[c].hash] = calls[c].json]_vars

\* A second commit, of one staged entry, has written its object and HEAD and
\* has not yet touched the index.
C19_Witness ==
    \E c \in Callers :
        /\ OnlyCaller(c)
        /\ calls[c].pc = "commit_create_index"
        /\ calls[c].parent \in CommitObjects
        /\ head.bytes = calls[c].hash
        /\ RecordAt(head.bytes).files # <<>>
        /\ ParseIndex(index.bytes).val = RecordAt(head.bytes).files

\* The hashes log shows: those on the parent chain from HEAD.
Shown ==
    LET walk == LogWalk(get_current_head(head),
                        Cardinality(DOMAIN objects) + 1, <<>>)
    IN {walk.visited[i].hash : i \in 1..Len(walk.visited)}

\* C20: when two commits both read HEAD before either writes it, both
\* records get the same parent and the history forks: once both have
\* returned, both records are stored with the parent they read, HEAD names
\* one of them, and the other is not on the parent chain from HEAD.
C20_InterleavedCommitsFork ==
    Quiet =>
        \A i, j \in CommitEvents :
            (/\ i < j
             /\ history[i].parent = history[j].parent
             /\ history[i].hash # history[j].hash) =>
                /\ {history[i].hash, history[j].hash} \subseteq CommitObjects
                /\ RecordAt(history[i].hash).parent = history[i].parent
                /\ RecordAt(history[j].hash).parent = history[j].parent
                /\ ~({history[i].hash, history[j].hash} \subseteq Shown)
                /\ Cardinality(CommitEvents) = 2 =>
                      /\ head.bytes \in {history[i].hash, history[j].hash}
                      /\ Cardinality({history[i].hash, history[j].hash}
                                         \cap Shown) = 1

\* Two commits by different callers have returned with the same parent;
\* HEAD names one, the other is stored and log does not show it.
C20_Witness ==
    /\ Quiet
    /\ \E i, j \in CommitEvents :
          /\ history[i].caller # history[j].caller
          /\ history[i].parent = history[j].parent
          /\ history[i].hash # history[j].hash
          /\ head.bytes = history[i].hash
          /\ history[j].hash \in CommitObjects
          /\ history[j].hash \notin Shown
          /\ history[i].hash \in Shown

====
